---- MODULE Spec2Model ----
(***************************************************************************)
(* GraphGenerator (src/src/GraphGenerator.py): the result tables loaded at *)
(* construction, the thirteen chart builders and generate_all_figures,    *)
(* which calls them in a fixed order.                                      *)
(*                                                                         *)
(* A table is a record [loaded, cols, rows]: loaded = FALSE is Python's    *)
(* None, cols the set of column names of the CSV header, rows the sequence *)
(* of its records.  A data frame derived from a table (a filter, a sort)   *)
(* is a sequence of indices into table.rows, as a pandas frame keeps the   *)
(* index labels of the rows it was cut from.  Identifiers are sequences of *)
(* one-character strings, so that the regular expression and the substring *)
(* tests of the code are computed, not assumed.                            *)
(***************************************************************************)
EXTENDS Integers, Sequences, FiniteSets, TLC

VARIABLES scalability_df, tax_sweep_df, cap_sweep_df, hybrid_df, svt_df,
          topology_df, nlm_comparison_df, consolidated_df,
          pareto_dir, pc, aborted, figures_dir, charts, console, invoked,
          outcome, open_figs

tables == <<scalability_df, tax_sweep_df, cap_sweep_df, hybrid_df, svt_df,
            topology_df, nlm_comparison_df, consolidated_df>>

vars == <<scalability_df, tax_sweep_df, cap_sweep_df, hybrid_df, svt_df,
          topology_df, nlm_comparison_df, consolidated_df,
          pareto_dir, pc, aborted, figures_dir, charts, console, invoked,
          outcome, open_figs>>

(***************************************************************************)
(* Bounds of the model.                                                    *)
(***************************************************************************)
\* rows of a scalability or topology table whose contents are enumerated
MaxRows == 2
\* rows of a sweep table or of the consolidated table whose contents are enumerated
\* (three: two rows of one instance and a third row, or all three strategy labels)
MaxGroupRows == 3
\* characters of an identifier enumerated for the topology classification
\* (five: "ml" and "par" can both occur)
MaxIdLen == 5
\* inputs that differ from the well-formed sample, in a run where any inputs may be absent
MaxDefects == 1
\* inputs that differ from the well-formed sample, in a run where every input exists
MaxPairDefects == 2

(***************************************************************************)
(* Strings.                                                                *)
(***************************************************************************)
Digits == {"0", "1", "2", "3", "4", "5", "6", "7", "8", "9"}

DigitVal(c) ==
    CASE c = "0" -> 0 [] c = "1" -> 1 [] c = "2" -> 2 [] c = "3" -> 3
      [] c = "4" -> 4 [] c = "5" -> 5 [] c = "6" -> 6 [] c = "7" -> 7
      [] c = "8" -> 8 [] c = "9" -> 9

\* str.lower() on the characters the model uses
LowerChar(c) ==
    CASE c = "M" -> "m" [] c = "L" -> "l" [] c = "P" -> "p" [] c = "A" -> "a"
      [] c = "R" -> "r" [] c = "B" -> "b" [] c = "O" -> "o"
      [] OTHER -> c

Lower(s) == [i \in 1..Len(s) |-> LowerChar(s[i])]

\* pat occurs in s at position p
OccursAt(pat, s, p) ==
    /\ p >= 1
    /\ p + Len(pat) - 1 <= Len(s)
    /\ \A k \in 1..Len(pat) : s[p + k - 1] = pat[k]

\* Python's `pat in s`
Contains(pat, s) == \E p \in 1..Len(s) : OccursAt(pat, s, p)

\* the value that pandas stores where a number is missing (NaN)
NoValue == -1

BomPrefix == <<"b", "o", "m", "_">>

\* the positions where  bom_(\d+)  matches: "bom_" followed by at least one digit
BomMatches(s) ==
    {p \in 1..Len(s) : /\ OccursAt(BomPrefix, s, p)
                       /\ p + 4 <= Len(s)
                       /\ s[p + 4] \in Digits}

RECURSIVE DigitRun(_, _, _)
\* the value of the longest run of digits of s that starts at position p (\d+ is greedy)
DigitRun(s, p, acc) ==
    IF p <= Len(s) /\ s[p] \in Digits
    THEN DigitRun(s, p + 1, 10 * acc + DigitVal(s[p]))
    ELSE acc

\* str.extract(r'bom_(\d+)').astype(float): the first match's group, NaN without a match
ExtractBomSize(s) ==
    LET ms == BomMatches(s) IN
    IF ms = {} THEN NoValue
    ELSE LET p == CHOOSE q \in ms : \A r \in ms : q <= r
         IN DigitRun(s, p + 4, 0)

\* the mutant of ClassifyTopology: 'par' is tested before 'ml'
ClassifyTopologyParFirst(x) ==
    IF Contains(<<"p", "a", "r">>, Lower(x)) THEN "Parallel"
    ELSE IF Contains(<<"m", "l">>, Lower(x)) THEN "Multi-Level"
    ELSE "Standard"

\* the lambda of plot_topology_comparison
ClassifyTopology(x) ==
    IF Contains(<<"m", "l">>, Lower(x)) THEN "Multi-Level"
    ELSE IF Contains(<<"p", "a", "r">>, Lower(x)) THEN "Parallel"
    ELSE "Standard"

(***************************************************************************)
(* Data frames.                                                            *)
(***************************************************************************)
\* self.x_df = None
NotLoaded == [loaded |-> FALSE, cols |-> {}, rows |-> <<>>]

Table(cols, rows) == [loaded |-> TRUE, cols |-> cols, rows |-> rows]

Range(s) == {s[i] : i \in 1..Len(s)}

\* the mutant of Optimal: the status filter is left out
OptimalUnfiltered(t) == [i \in 1..Len(t.rows) |-> i]

\* df[df['solver_status'] == 'OPTIMAL']: the indices of the rows kept, in table order
Optimal(t) ==
    LET keep(i) == t.rows[i].solver_status = "OPTIMAL"
    IN SelectSeq([i \in 1..Len(t.rows) |-> i], keep)

\* Series.unique(): the values in order of first appearance
Unique(vals) ==
    LET first(i) == \A j \in 1..(i - 1) : vals[j] # vals[i]
        idx == SelectSeq([i \in 1..Len(vals) |-> i], first)
    IN [k \in 1..Len(idx) |-> vals[idx[k]]]

InsertAsc(x, s, key) ==
    LET k == Cardinality({j \in 1..Len(s) : key[s[j]] <= key[x]})
    IN SubSeq(s, 1, k) \o <<x>> \o SubSeq(s, k + 1, Len(s))

InsertDesc(x, s, key) ==
    LET k == Cardinality({j \in 1..Len(s) : key[s[j]] >= key[x]})
    IN SubSeq(s, 1, k) \o <<x>> \o SubSeq(s, k + 1, Len(s))

RECURSIVE SortAsc(_, _)
\* sort_values(col): ascending by key, rows with equal keys in frame order
SortAsc(s, key) ==
    IF s = <<>> THEN <<>>
    ELSE InsertAsc(s[Len(s)], SortAsc(SubSeq(s, 1, Len(s) - 1), key), key)

RECURSIVE SortDesc(_, _)
\* sort_values(col, ascending=False)
SortDesc(s, key) ==
    IF s = <<>> THEN <<>>
    ELSE InsertDesc(s[Len(s)], SortDesc(SubSeq(s, 1, Len(s) - 1), key), key)

\* the largest of a non-empty set of numbers
Max(S) == CHOOSE m \in S : \A n \in S : n <= m

(***************************************************************************)
(* What one call of a builder does: it returns or raises, writes the       *)
(* artifacts of `files` (their contents in `chart`), prints `msgs` and     *)
(* leaves `leak` figures open.                                             *)
(***************************************************************************)
NoChart == [b \in {} |-> <<>>]

Builders ==
    <<"plot_scalability_runtime", "plot_scalability_emissions",
      "plot_scalability_buffers", "plot_tax_sweep", "plot_cap_sweep",
      "plot_hybrid_strategy", "plot_cost_emissions_pareto",
      "plot_strategy_comparison", "plot_inventory_kpis",
      "plot_service_time_sensitivity", "plot_topology_comparison",
      "plot_plm_nlm_comparison", "plot_pareto_fronts">>

\* the charts of the catalog: one per table-based builder, two for plot_pareto_fronts
Owners ==
    (Range(Builders) \ {"plot_pareto_fronts"})
        \cup {"pareto_cost_emissions", "pareto_cost_dio"}

\* the mutant of FigIndex: charts numbered in the order they are produced
FigIndexSequential(owner) == Cardinality(DOMAIN charts) + 1

\* the N of fig<N>_<slug> in the savefig calls of a chart
FigIndex(owner) ==
    CASE owner = "plot_scalability_runtime" -> 1
      [] owner = "plot_scalability_emissions" -> 2
      [] owner = "plot_scalability_buffers" -> 3
      [] owner = "plot_tax_sweep" -> 4
      [] owner = "plot_cap_sweep" -> 5
      [] owner = "plot_hybrid_strategy" -> 6
      [] owner = "plot_cost_emissions_pareto" -> 7
      [] owner = "plot_strategy_comparison" -> 8
      [] owner = "plot_inventory_kpis" -> 9
      [] owner = "plot_service_time_sensitivity" -> 10
      [] owner = "plot_topology_comparison" -> 11
      [] owner = "plot_plm_nlm_comparison" -> 12
      [] owner = "pareto_cost_emissions" -> 13
      [] owner = "pareto_cost_dio" -> 14

\* the slug of fig<N>_<slug> in the savefig calls of a chart
FigSlug(owner) ==
    CASE owner = "plot_scalability_runtime" -> "scalability_runtime"
      [] owner = "plot_scalability_emissions" -> "scalability_emissions"
      [] owner = "plot_scalability_buffers" -> "scalability_buffers"
      [] owner = "plot_tax_sweep" -> "tax_sweep"
      [] owner = "plot_cap_sweep" -> "cap_sweep"
      [] owner = "plot_hybrid_strategy" -> "hybrid_strategy"
      [] owner = "plot_cost_emissions_pareto" -> "cost_emissions_pareto"
      [] owner = "plot_strategy_comparison" -> "strategy_comparison"
      [] owner = "plot_inventory_kpis" -> "inventory_kpis"
      [] owner = "plot_service_time_sensitivity" -> "service_time_sensitivity"
      [] owner = "plot_topology_comparison" -> "topology_comparison"
      [] owner = "plot_plm_nlm_comparison" -> "plm_nlm_comparison"
      [] owner = "pareto_cost_emissions" -> "pareto_cost_emissions"
      [] owner = "pareto_cost_dio" -> "pareto_cost_dio"

\* the base name that the savefig calls of a chart use
FigName(owner) == [n |-> FigIndex(owner), slug |-> FigSlug(owner)]

Msg(builder, text) == [about |-> builder, text |-> text]

\* return before plt.subplots
Return(msgs) ==
    [kind |-> "return", files |-> {}, chart |-> NoChart, msgs |-> msgs,
     leak |-> 0, error |-> ""]

\* return after plt.subplots, without plt.close
ReturnOpen(msgs) ==
    [kind |-> "return", files |-> {}, chart |-> NoChart, msgs |-> msgs,
     leak |-> 1, error |-> ""]

\* an exception that leaves the builder after plt.subplots
Raise(err) ==
    [kind |-> "raise", files |-> {}, chart |-> NoChart, msgs |-> <<>>,
     leak |-> 1, error |-> err]

\* plt.savefig(png); plt.savefig(pdf); plt.close(); print("Generated: ...")
Save(builder, owner, series) ==
    [kind |-> "return", files |-> {FigName(owner)},
     chart |-> (FigName(owner) :> series),
     msgs |-> <<Msg(builder, "Generated")>>, leak |-> 0, error |-> ""]

Series(panel, label, pts) == [panel |-> panel, label |-> label, pts |-> pts]

\* the points of the rows of df, each at x[row]
Points(df, x) == [k \in 1..Len(df) |-> [row |-> df[k], x |-> x[df[k]]]]

\* the rows of df, with no x coordinate modelled
Members(df) == [k \in 1..Len(df) |-> [row |-> df[k], x |-> 0]]

\* df[df[col] == v] for the column whose values are val[row]
Where(df, val, v) == LET keep(i) == val[i] = v IN SelectSeq(df, keep)

\* dropna(subset=[col]): the rows of df whose value of col is present
DropNa(t, df, col) == LET keep(i) == col \notin t.rows[i].na IN SelectSeq(df, keep)

(***************************************************************************)
(* The three scalability builders.                                         *)
(***************************************************************************)
\* df['bom_size'], by row
BomSize(t) == [i \in 1..Len(t.rows) |-> ExtractBomSize(t.rows[i].instance_id)]

\* dropna(subset=['bom_size']): the rows whose identifier gave a size
WithBomSize(t, df) == LET keep(i) == BomSize(t)[i] # NoValue IN SelectSeq(df, keep)

plot_scalability_runtime(t) ==
    LET df == Optimal(t)
        sized == SortAsc(WithBomSize(t, df), BomSize(t))
    IN IF df = <<>>
       THEN Return(<<Msg("plot_scalability_runtime",
                         "No optimal solutions for scalability runtime plot")>>)
       ELSE IF "instance_id" \notin t.cols THEN Raise("KeyError: instance_id")
       ELSE IF "runtime_sec" \notin t.cols THEN Raise("KeyError: runtime_sec")
       \* max(df['bom_size']) of an empty frame
       ELSE IF sized = <<>> THEN Raise("ValueError: max() arg is an empty sequence")
       ELSE Save("plot_scalability_runtime", "plot_scalability_runtime",
                 <<Series(0, "scatter", Points(sized, BomSize(t))),
                   Series(0, "line", Points(sized, BomSize(t)))>>)

plot_scalability_emissions(t) ==
    LET df == Optimal(t)
        sized == SortAsc(DropNa(t, WithBomSize(t, df), "total_emissions"), BomSize(t))
    IN IF df = <<>> \/ "total_emissions" \notin t.cols THEN Return(<<>>)
       ELSE IF "instance_id" \notin t.cols THEN Raise("KeyError: instance_id")
       ELSE Save("plot_scalability_emissions", "plot_scalability_emissions",
                 <<Series(0, "bar", Points(sized, BomSize(t)))>>)

plot_scalability_buffers(t) ==
    LET df == Optimal(t)
        sized == SortAsc(DropNa(t, WithBomSize(t, df), "buffer_count"), BomSize(t))
    IN IF df = <<>> \/ "buffer_count" \notin t.cols THEN Return(<<>>)
       ELSE IF "instance_id" \notin t.cols THEN Raise("KeyError: instance_id")
       \* np.polyfit of empty vectors
       ELSE IF sized = <<>> THEN Raise("TypeError: expected non-empty vector for x")
       ELSE Save("plot_scalability_buffers", "plot_scalability_buffers",
                 <<Series(0, "scatter", Points(sized, BomSize(t))),
                   Series(0, "Linear trend", Points(sized, BomSize(t)))>>)

(***************************************************************************)
(* The carbon policy builders.                                             *)
(***************************************************************************)
\* df['instance_id'], by position in df
InstanceIds(t, df) == [k \in 1..Len(df) |-> t.rows[df[k]].instance_id]

\* df[df['instance_id'] == instance]
OfInstance(t, df, instance) ==
    LET keep(i) == t.rows[i].instance_id = instance IN SelectSeq(df, keep)

\* the instances that `if len(inst_df) > 1` lets through, in order of appearance
PlottedInstances(t, df) ==
    LET keep(inst) == Len(OfInstance(t, df, inst)) > 1
    IN SelectSeq(Unique(InstanceIds(t, df)), keep)

TaxRate(t) == [i \in 1..Len(t.rows) |-> t.rows[i].tax_rate]

plot_tax_sweep(t) ==
    LET df == Optimal(t)
        plotted == PlottedInstances(t, df)
        inst_df(inst) == SortAsc(OfInstance(t, df, inst), TaxRate(t))
        \* per instance one line in the emissions panel and one in the cost panel
        series == [k \in 1..(2 * Len(plotted)) |->
                     Series((k + 1) % 2, plotted[(k + 1) \div 2],
                            Points(inst_df(plotted[(k + 1) \div 2]), TaxRate(t)))]
    IN IF df = <<>> THEN Return(<<>>)
       ELSE IF "instance_id" \notin t.cols THEN Raise("KeyError: instance_id")
       ELSE IF "tax_rate" \notin t.cols THEN Raise("KeyError: tax_rate")
       ELSE IF plotted # <<>> /\ "total_emissions" \notin t.cols
       THEN Raise("KeyError: total_emissions")
       ELSE IF plotted # <<>> /\ "total_cost_with_tax" \notin t.cols
       THEN Raise("KeyError: total_cost_with_tax")
       ELSE Save("plot_tax_sweep", "plot_tax_sweep", series)

CapValue(t) == [i \in 1..Len(t.rows) |-> t.rows[i].cap_value]

\* baseline_emis of one instance: the baseline_emissions of the first row of inst_df
\* if the table has that column, else the largest cap_value of inst_df
BaselineEmis(t, inst_df) ==
    IF "baseline_emissions" \in t.cols
    THEN t.rows[inst_df[1]].baseline_emissions
    ELSE Max({CapValue(t)[i] : i \in Range(inst_df)})

\* cap_pct = (cap_value / baseline_emis) * 100, kept as the fraction num/den
CapPct(t, inst_df) ==
    [k \in 1..Len(inst_df) |->
       [row |-> inst_df[k],
        x |-> [num |-> 100 * CapValue(t)[inst_df[k]], den |-> BaselineEmis(t, inst_df)]]]

plot_cap_sweep(t) ==
    LET df == Optimal(t)
        plotted == IF "emission_reduction_pct" \in t.cols
                   THEN PlottedInstances(t, df) ELSE <<>>
        inst_df(inst) == SortDesc(OfInstance(t, df, inst), CapValue(t))
        series == [k \in 1..Len(plotted) |->
                     Series(0, plotted[k], CapPct(t, inst_df(plotted[k])))]
    IN IF df = <<>> THEN Return(<<>>)
       ELSE IF "instance_id" \notin t.cols THEN Raise("KeyError: instance_id")
       ELSE IF "cap_value" \notin t.cols THEN Raise("KeyError: cap_value")
       ELSE IF plotted # <<>> /\ "total_cost_without_tax" \notin t.cols
       THEN Raise("KeyError: total_cost_without_tax")
       ELSE Save("plot_cap_sweep", "plot_cap_sweep", series)

plot_hybrid_strategy(t) ==
    LET df == Optimal(t)
        instances == Unique(InstanceIds(t, df))
        firstTwo == SubSeq(instances, 1, IF Len(instances) < 2 THEN Len(instances) ELSE 2)
        \* the panels drawn: position i of instances[:2] if it has more than one row
        drawn == {i \in 1..Len(firstTwo) : Len(OfInstance(t, df, firstTwo[i])) > 1}
        panels == SelectSeq([i \in 1..Len(firstTwo) |-> i], LAMBDA i : i \in drawn)
        series == [k \in 1..Len(panels) |->
                     Series(panels[k] - 1, firstTwo[panels[k]],
                            Members(OfInstance(t, df, firstTwo[panels[k]])))]
    IN IF df = <<>> THEN Return(<<>>)
       ELSE IF "instance_id" \notin t.cols THEN Raise("KeyError: instance_id")
       \* ax = axes, the array of both panels, when there is a single instance
       ELSE IF drawn # {} /\ Len(instances) = 1
       THEN Raise("AttributeError: 'numpy.ndarray' object has no attribute 'scatter'")
       ELSE IF drawn # {} /\ "total_emissions" \notin t.cols
       THEN Raise("KeyError: total_emissions")
       ELSE IF drawn # {} /\ "total_cost_with_tax" \notin t.cols
       THEN Raise("KeyError: total_cost_with_tax")
       ELSE IF drawn # {} /\ "tax_rate" \notin t.cols
       THEN Raise("KeyError: tax_rate")
       ELSE Save("plot_hybrid_strategy", "plot_hybrid_strategy", series)

(***************************************************************************)
(* The builders of the consolidated table.                                 *)
(***************************************************************************)
Strategy(t) == [i \in 1..Len(t.rows) |-> t.rows[i].strategy]

\* df[col].unique() for the column whose values are val[row]
UniqueOf(df, val) == Unique([k \in 1..Len(df) |-> val[df[k]]])

plot_cost_emissions_pareto(t) ==
    LET df == Optimal(t)
        strategies == UniqueOf(df, Strategy(t))
        series == [k \in 1..Len(strategies) |->
                     Series(0, strategies[k], Members(Where(df, Strategy(t), strategies[k])))]
    IN IF df = <<>> \/ "strategy" \notin t.cols THEN Return(<<>>)
       ELSE IF "total_emissions" \notin t.cols THEN Raise("KeyError: total_emissions")
       ELSE IF "total_cost_without_tax" \notin t.cols
       THEN Raise("KeyError: total_cost_without_tax")
       ELSE Save("plot_cost_emissions_pareto", "plot_cost_emissions_pareto", series)

\* strategies = ['EMISTAXE', 'EMISCAP', 'EMISHYBRID']
KnownStrategies == <<"EMISTAXE", "EMISCAP", "EMISHYBRID">>

\* [s for s in strategies if s in df['strategy'].values]
ExistingStrategies(t, df) ==
    SelectSeq(KnownStrategies, LAMBDA s : s \in Range(UniqueOf(df, Strategy(t))))

\* the mutant of TooFewStrategies: a single strategy is enough
TooFewStrategiesOffByOne(existing) == Len(existing) < 1

\* if len(existing_strategies) < 2: return
TooFewStrategies(existing) == Len(existing) < 2

plot_strategy_comparison(t) ==
    LET df == Optimal(t)
        existing == ExistingStrategies(t, df)
        strat_df(s) == Where(df, Strategy(t), s)
        with_tax(s) == DropNa(t, strat_df(s), "total_cost_with_tax")
        \* some strategy has no total_cost_with_tax value: total_cost_without_tax is read
        fallback == \E k \in 1..Len(existing) : with_tax(existing[k]) = <<>>
        costs(s) == IF with_tax(s) = <<>>
                    THEN DropNa(t, strat_df(s), "total_cost_without_tax")
                    ELSE with_tax(s)
        n == Len(existing)
        series == [k \in 1..(3 * n) |->
                     LET s == existing[((k - 1) % n) + 1] IN
                     IF k <= n THEN Series(0, s, Members(costs(s)))
                     ELSE IF k <= 2 * n
                     THEN Series(1, s, Members(DropNa(t, strat_df(s), "total_emissions")))
                     ELSE Series(2, s, Members(DropNa(t, strat_df(s), "buffer_count")))]
    IN IF df = <<>> \/ "strategy" \notin t.cols THEN Return(<<>>)
       ELSE IF TooFewStrategies(existing) THEN ReturnOpen(<<>>)
       ELSE IF "total_cost_with_tax" \notin t.cols
       THEN Raise("KeyError: total_cost_with_tax")
       ELSE IF fallback /\ "total_cost_without_tax" \notin t.cols
       THEN Raise("KeyError: total_cost_without_tax")
       ELSE IF "total_emissions" \notin t.cols THEN Raise("KeyError: total_emissions")
       ELSE IF "buffer_count" \notin t.cols THEN Raise("KeyError: buffer_count")
       ELSE Save("plot_strategy_comparison", "plot_strategy_comparison", series)

plot_inventory_kpis(t) ==
    LET df == Optimal(t)
        strategies == UniqueOf(df, Strategy(t))
        dio == [k \in 1..Len(strategies) |->
                  Series(0, strategies[k], Members(Where(df, Strategy(t), strategies[k])))]
        impr == [k \in 1..Len(strategies) |->
                   Series(1, strategies[k], Members(Where(df, Strategy(t), strategies[k])))]
    IN IF df = <<>> \/ "DIO" \notin t.cols THEN Return(<<>>)
       ELSE IF "strategy" \notin t.cols THEN Raise("KeyError: strategy")
       ELSE Save("plot_inventory_kpis", "plot_inventory_kpis",
                 IF "DIO_improvement_pct" \in t.cols THEN dio \o impr ELSE dio)

(***************************************************************************)
(* Service time, topology and model comparison.                            *)
(***************************************************************************)
ServiceTime(t) == [i \in 1..Len(t.rows) |-> t.rows[i].service_time_promised]

\* sorted(values): ascending
Sorted(values) == SortAsc(values, [v \in Range(values) |-> v])

\* the series of one panel: a bar, or a box, per group value
Grouped(panel, df, val, groups) ==
    [k \in 1..Len(groups) |-> Series(panel, groups[k], Members(Where(df, val, groups[k])))]

plot_service_time_sensitivity(t) ==
    LET df == Optimal(t)
        svt_values == Sorted(UniqueOf(df, ServiceTime(t)))
    IN IF df = <<>> THEN Return(<<>>)
       ELSE IF "service_time_promised" \notin t.cols
       THEN Raise("KeyError: service_time_promised")
       ELSE IF "buffer_count" \notin t.cols THEN Raise("KeyError: buffer_count")
       ELSE IF "total_cost_without_tax" \notin t.cols
       THEN Raise("KeyError: total_cost_without_tax")
       ELSE Save("plot_service_time_sensitivity", "plot_service_time_sensitivity",
                 Grouped(0, df, ServiceTime(t), svt_values)
                     \o Grouped(1, df, ServiceTime(t), svt_values))

\* df['topology'], by row
Topology(t) == [i \in 1..Len(t.rows) |-> ClassifyTopology(t.rows[i].instance_id)]

plot_topology_comparison(t) ==
    LET df == Optimal(t)
        topologies == UniqueOf(df, Topology(t))
    IN IF df = <<>> THEN Return(<<>>)
       ELSE IF "instance_id" \notin t.cols THEN Raise("KeyError: instance_id")
       ELSE IF "total_emissions" \notin t.cols THEN Raise("KeyError: total_emissions")
       ELSE IF "buffer_count" \notin t.cols THEN Raise("KeyError: buffer_count")
       ELSE Save("plot_topology_comparison", "plot_topology_comparison",
                 Grouped(0, df, Topology(t), topologies)
                     \o Grouped(1, df, Topology(t), topologies))

ModelType(t) == [i \in 1..Len(t.rows) |-> t.rows[i].model_type]

plot_plm_nlm_comparison(t) ==
    LET df == Optimal(t)
        model_types == UniqueOf(df, ModelType(t))
    IN IF df = <<>> \/ "model_type" \notin t.cols THEN Return(<<>>)
       ELSE IF "runtime_sec" \notin t.cols THEN Raise("KeyError: runtime_sec")
       ELSE IF "total_cost_without_tax" \notin t.cols
       THEN Raise("KeyError: total_cost_without_tax")
       ELSE Save("plot_plm_nlm_comparison", "plot_plm_nlm_comparison",
                 Grouped(0, df, ModelType(t), model_types)
                     \o Grouped(1, df, ModelType(t), model_types))

(***************************************************************************)
(* Pareto fronts.  The directory is [exists, files]; a file is             *)
(* [instance, front, pareto_csv, cols]: its name is <instance>_<front> and *)
(* ends in _pareto.csv if pareto_csv.                                      *)
(***************************************************************************)
\* the files of pareto_dir.glob('*_pareto.csv') whose name contains front
FrontFiles(dir, front) ==
    SelectSeq(dir.files, LAMBDA f : f.pareto_csv /\ f.front = front)

\* one line per file that has both columns
FrontSeries(files, ycol) ==
    LET ok == SelectSeq(files, LAMBDA f : "Cost" \in f.cols /\ ycol \in f.cols)
    IN [k \in 1..Len(ok) |-> Series(0, ok[k].instance, <<>>)]

plot_pareto_fronts(dir) ==
    LET pareto_files == SelectSeq(dir.files, LAMBDA f : f.pareto_csv)
        cost_emis_files == FrontFiles(dir, "cost_emissions")
        cost_dio_files == FrontFiles(dir, "cost_dio")
        emis == IF cost_emis_files # <<>> THEN {"pareto_cost_emissions"} ELSE {}
        dio == IF cost_dio_files # <<>> THEN {"pareto_cost_dio"} ELSE {}
        content(o) == IF o = "pareto_cost_emissions"
                      THEN FrontSeries(cost_emis_files, "Emissions")
                      ELSE FrontSeries(cost_dio_files, "DIO")
        names == {FigName(o) : o \in emis \cup dio}
    IN IF ~dir.exists
       THEN Return(<<Msg("plot_pareto_fronts", "No Pareto front data found")>>)
       ELSE IF pareto_files = <<>> THEN Return(<<>>)
       ELSE [kind |-> "return", files |-> names,
             chart |-> [nm \in names |->
                          content(CHOOSE o \in emis \cup dio : FigName(o) = nm)],
             msgs |-> [k \in 1..Cardinality(names) |->
                         Msg("plot_pareto_fronts", "Generated")],
             leak |-> 0, error |-> ""]

(***************************************************************************)
(* generate_all_figures: thirteen call sites in a fixed order, each behind *)
(* its `is not None` test, then the closing print.  pc is the call site    *)
(* reached; an exception of a builder is caught nowhere and ends the run.  *)
(***************************************************************************)
Returned == Len(Builders) + 2

Files(names) ==
    {[n |-> nm.n, slug |-> nm.slug, ext |-> e] : nm \in names, e \in {"png", "pdf"}}

Result(out) ==
    IF out.kind = "raise" THEN "raised"
    ELSE IF out.files = {} THEN "skipped" ELSE "saved"

\* the builders that start with df = self.<name>_df.copy()
CopiedBy ==
    [scalability |-> {"plot_scalability_runtime", "plot_scalability_emissions",
                      "plot_scalability_buffers"},
     tax_sweep |-> {"plot_tax_sweep"},
     cap_sweep |-> {"plot_cap_sweep"},
     hybrid |-> {"plot_hybrid_strategy"},
     consolidated |-> {"plot_cost_emissions_pareto", "plot_strategy_comparison",
                       "plot_inventory_kpis"},
     svt |-> {"plot_service_time_sensitivity"},
     topology |-> {"plot_topology_comparison"},
     nlm_comparison |-> {"plot_plm_nlm_comparison"}]

\* the column that builder b adds to its frame: df['bom_size'] = ..., df['topology'] = ...
DerivedCols(b) ==
    IF b \in CopiedBy.scalability THEN {"bom_size"}
    ELSE IF b \in CopiedBy.topology THEN {"topology"}
    ELSE {}

\* the local frame df of builder b: the OPTIMAL rows of t, with the derived column
LocalFrame(b, t) ==
    [loaded |-> TRUE,
     cols |-> t.cols \cup (IF Optimal(t) = <<>> THEN {} ELSE DerivedCols(b)),
     rows |-> [k \in 1..Len(Optimal(t)) |-> t.rows[Optimal(t)[k]]]]

\* the mutant of AttributeAfter: the builder works on the attribute itself, not on a copy
AttributeAliased(b, t) == LocalFrame(b, t)

\* the table attribute after builder b has run: b has rebound and changed only its copy
AttributeAfter(b, t) == t

\* attribute `name` after a call of builder b
After(name, b, t) == IF b \in CopiedBy[name] THEN AttributeAfter(b, t) ELSE t

\* self.plot_x(): the builder runs to its return or to its exception
Invoke(b, out) ==
    /\ invoked' = Append(invoked, b)
    /\ outcome' = [outcome EXCEPT ![b] = Result(out)]
    /\ figures_dir' = figures_dir \cup Files(out.files)
    /\ charts' = out.chart @@ charts
    /\ console' = console \o out.msgs
    /\ open_figs' = open_figs + out.leak
    /\ aborted' = (out.kind = "raise")
    /\ pc' = IF out.kind = "raise" THEN pc ELSE pc + 1
    /\ scalability_df' = After("scalability", b, scalability_df)
    /\ tax_sweep_df' = After("tax_sweep", b, tax_sweep_df)
    /\ cap_sweep_df' = After("cap_sweep", b, cap_sweep_df)
    /\ hybrid_df' = After("hybrid", b, hybrid_df)
    /\ svt_df' = After("svt", b, svt_df)
    /\ topology_df' = After("topology", b, topology_df)
    /\ nlm_comparison_df' = After("nlm_comparison", b, nlm_comparison_df)
    /\ consolidated_df' = After("consolidated", b, consolidated_df)
    /\ UNCHANGED pareto_dir

\* the test of the call site is false: the builder is not called
PassBy ==
    /\ pc' = pc + 1
    /\ UNCHANGED <<tables, pareto_dir, aborted, figures_dir, charts, console,
                   invoked, outcome, open_figs>>

\* if self.x_df is not None: self.plot_x()
Site(i, t, out) ==
    /\ pc = i
    /\ ~aborted
    /\ IF t.loaded THEN Invoke(Builders[i], out) ELSE PassBy

PlotScalabilityRuntime ==
    Site(1, scalability_df, plot_scalability_runtime(scalability_df))

PlotScalabilityEmissions ==
    Site(2, scalability_df, plot_scalability_emissions(scalability_df))

PlotScalabilityBuffers ==
    Site(3, scalability_df, plot_scalability_buffers(scalability_df))

PlotTaxSweep == Site(4, tax_sweep_df, plot_tax_sweep(tax_sweep_df))

PlotCapSweep == Site(5, cap_sweep_df, plot_cap_sweep(cap_sweep_df))

PlotHybridStrategy == Site(6, hybrid_df, plot_hybrid_strategy(hybrid_df))

PlotCostEmissionsPareto ==
    Site(7, consolidated_df, plot_cost_emissions_pareto(consolidated_df))

PlotStrategyComparison ==
    Site(8, consolidated_df, plot_strategy_comparison(consolidated_df))

PlotInventoryKpis == Site(9, consolidated_df, plot_inventory_kpis(consolidated_df))

PlotServiceTimeSensitivity ==
    Site(10, svt_df, plot_service_time_sensitivity(svt_df))

PlotTopologyComparison ==
    Site(11, topology_df, plot_topology_comparison(topology_df))

PlotPlmNlmComparison ==
    Site(12, nlm_comparison_df, plot_plm_nlm_comparison(nlm_comparison_df))

\* self.plot_pareto_fronts() is called whatever was loaded
PlotParetoFronts ==
    /\ pc = 13
    /\ ~aborted
    /\ Invoke("plot_pareto_fronts", plot_pareto_fronts(pareto_dir))

\* print(f"\nAll figures saved to: {self.figures_dir}")
Finish ==
    /\ pc = 14
    /\ ~aborted
    /\ pc' = Returned
    /\ console' = Append(console, Msg("generate_all_figures", "All figures saved to"))
    /\ UNCHANGED <<tables, pareto_dir, aborted, figures_dir, charts, invoked,
                   outcome, open_figs>>

Next ==
    \/ PlotScalabilityRuntime
    \/ PlotScalabilityEmissions
    \/ PlotScalabilityBuffers
    \/ PlotTaxSweep
    \/ PlotCapSweep
    \/ PlotHybridStrategy
    \/ PlotCostEmissionsPareto
    \/ PlotStrategyComparison
    \/ PlotInventoryKpis
    \/ PlotServiceTimeSensitivity
    \/ PlotTopologyComparison
    \/ PlotPlmNlmComparison
    \/ PlotParetoFronts
    \/ Finish

(***************************************************************************)
(* The inputs enumerated.                                                  *)
(***************************************************************************)
SeqsUpTo(S, n) == UNION {[1..k -> S] : k \in 0..n}

Status == {"OPTIMAL", "INFEASIBLE"}

bom_10 == <<"b", "o", "m", "_", "1", "0">>
bom_50 == <<"b", "o", "m", "_", "5", "0">>
control == <<"c", "o", "n", "t", "r", "o", "l">>
xbom_7 == <<"x", "b", "o", "m", "_", "7">>
Bom_3 == <<"B", "o", "m", "_", "3">>
inst_A == <<"A">>
inst_B == <<"B">>

ScalCols == {"instance_id", "solver_status", "runtime_sec", "total_emissions", "buffer_count"}
TaxCols == {"instance_id", "solver_status", "tax_rate", "total_emissions", "total_cost_with_tax"}
CapCols == {"instance_id", "solver_status", "cap_value", "emission_reduction_pct",
            "baseline_emissions", "total_cost_without_tax"}
HybridCols == {"instance_id", "solver_status", "tax_rate", "total_emissions",
               "total_cost_with_tax"}
ConsCols == {"solver_status", "strategy", "total_emissions", "total_cost_without_tax",
             "total_cost_with_tax", "buffer_count", "DIO", "DIO_improvement_pct"}
SvtCols == {"solver_status", "service_time_promised", "buffer_count",
            "total_cost_without_tax"}
TopoCols == {"instance_id", "solver_status", "total_emissions", "buffer_count"}
NlmCols == {"solver_status", "model_type", "runtime_sec", "total_cost_without_tax"}

ScalRow(id, st, na) == [instance_id |-> id, solver_status |-> st, na |-> na]
TaxRow(id, st, rate) == [instance_id |-> id, solver_status |-> st, tax_rate |-> rate]
CapRow(id, st, cap, base) ==
    [instance_id |-> id, solver_status |-> st, cap_value |-> cap,
     baseline_emissions |-> base]
HybridRow(id, st) == [instance_id |-> id, solver_status |-> st]
ConsRow(strat, st, na) == [strategy |-> strat, solver_status |-> st, na |-> na]
SvtRow(svt, st) == [service_time_promised |-> svt, solver_status |-> st]
TopoRow(id, st) == [instance_id |-> id, solver_status |-> st, na |-> {}]
NlmRow(mt, st) == [model_type |-> mt, solver_status |-> st]

ParetoFile(inst, front, csv, cols) ==
    [instance |-> inst, front |-> front, pareto_csv |-> csv, cols |-> cols]

\* a well-formed input of each kind
Good(name) ==
    CASE name = "scalability" ->
           Table(ScalCols, <<ScalRow(bom_50, "OPTIMAL", {}), ScalRow(bom_10, "OPTIMAL", {})>>)
      [] name = "tax_sweep" ->
           Table(TaxCols, <<TaxRow(inst_A, "OPTIMAL", 2), TaxRow(inst_A, "OPTIMAL", 1)>>)
      [] name = "cap_sweep" ->
           Table(CapCols, <<CapRow(inst_A, "OPTIMAL", 1, 2), CapRow(inst_A, "OPTIMAL", 2, 2)>>)
      [] name = "hybrid" ->
           Table(HybridCols, <<HybridRow(inst_A, "OPTIMAL"), HybridRow(inst_B, "OPTIMAL"),
                               HybridRow(inst_A, "OPTIMAL")>>)
      [] name = "consolidated" ->
           Table(ConsCols, <<ConsRow("EMISCAP", "OPTIMAL", {"total_cost_with_tax"}),
                             ConsRow("EMISTAXE", "OPTIMAL", {})>>)
      [] name = "svt" ->
           Table(SvtCols, <<SvtRow(2, "OPTIMAL"), SvtRow(1, "OPTIMAL")>>)
      [] name = "topology" ->
           Table(TopoCols, <<TopoRow(<<"m", "l">>, "OPTIMAL"),
                             TopoRow(<<"p", "a", "r">>, "OPTIMAL")>>)
      [] name = "nlm_comparison" ->
           Table(NlmCols, <<NlmRow("PLM", "OPTIMAL"), NlmRow("NLM", "OPTIMAL")>>)
      [] name = "pareto" ->
           [exists |-> TRUE,
            files |-> <<ParetoFile(inst_A, "cost_emissions", TRUE, {"Cost", "Emissions"}),
                        ParetoFile(inst_A, "cost_dio", TRUE, {"Cost", "DIO"})>>]

\* the file, or the directory, does not exist
Absent(name) ==
    IF name = "pareto" THEN [exists |-> FALSE, files |-> <<>>] ELSE NotLoaded

\* the table with no row left after the status filter
Infeasible(t) ==
    [t EXCEPT !.rows = [i \in 1..Len(t.rows) |-> [t.rows[i] EXCEPT !.solver_status = "INFEASIBLE"]]]

\* the table with a row that is not OPTIMAL before and after its rows
Mixed(t) ==
    [t EXCEPT !.rows = <<Infeasible(t).rows[1]>> \o t.rows \o <<Infeasible(t).rows[Len(t.rows)]>>]

\* a column that the builders of each table read
ExampleColumn(name) ==
    CASE name = "scalability" -> "runtime_sec"
      [] name = "tax_sweep" -> "tax_rate"
      [] name = "cap_sweep" -> "cap_value"
      [] name = "hybrid" -> "tax_rate"
      [] name = "consolidated" -> "strategy"
      [] name = "svt" -> "service_time_promised"
      [] name = "topology" -> "buffer_count"
      [] name = "nlm_comparison" -> "runtime_sec"

\* the other inputs of the run-level specifications: a table with no OPTIMAL row, with
\* rows of both statuses, with a column missing; a pareto directory with no file, with
\* files of another front only, with a file that lacks a column
Defects(name) ==
    IF name = "pareto"
    THEN {[exists |-> TRUE, files |-> <<>>],
          [exists |-> TRUE, files |-> <<ParetoFile(inst_A, "cost_wip", TRUE, {"Cost", "WIP"})>>],
          [exists |-> TRUE, files |-> <<ParetoFile(inst_A, "cost_emissions", TRUE, {"Cost"}),
                                        ParetoFile(inst_A, "cost_dio", FALSE, {"Cost", "DIO"})>>]}
    ELSE {Infeasible(Good(name)), Mixed(Good(name)),
          [Good(name) EXCEPT !.cols = @ \ {ExampleColumn(name)}]}

InputNames ==
    {"scalability", "tax_sweep", "cap_sweep", "hybrid", "svt", "topology",
     "nlm_comparison", "consolidated", "pareto"}

\* the state in which generate_all_figures starts
Start ==
    /\ pc = 1
    /\ aborted = FALSE
    /\ figures_dir = {}
    /\ charts = NoChart
    /\ console = <<>>
    /\ invoked = <<>>
    /\ outcome = [b \in Range(Builders) |-> "not invoked"]
    /\ open_figs = 0

Choices(name, present, defective) ==
    IF name \notin present THEN {Absent(name)}
    ELSE IF name \in defective THEN Defects(name)
    ELSE {Good(name)}

\* load_data: any subset of the inputs exists; at most MaxDefects of them differ from
\* the well-formed sample
Init ==
    /\ \E present \in SUBSET InputNames :
         \E defective \in SUBSET present :
            /\ Cardinality(defective) <= MaxDefects
            /\ scalability_df \in Choices("scalability", present, defective)
            /\ tax_sweep_df \in Choices("tax_sweep", present, defective)
            /\ cap_sweep_df \in Choices("cap_sweep", present, defective)
            /\ hybrid_df \in Choices("hybrid", present, defective)
            /\ svt_df \in Choices("svt", present, defective)
            /\ topology_df \in Choices("topology", present, defective)
            /\ nlm_comparison_df \in Choices("nlm_comparison", present, defective)
            /\ consolidated_df \in Choices("consolidated", present, defective)
            /\ pareto_dir \in Choices("pareto", present, defective)
    /\ Start

Spec == Init /\ [][Next]_vars

\* load_data: every input exists; at most MaxPairDefects of them differ from the
\* well-formed sample
InitPair ==
    /\ \E defective \in SUBSET InputNames :
          /\ Cardinality(defective) <= MaxPairDefects
          /\ scalability_df \in Choices("scalability", InputNames, defective)
          /\ tax_sweep_df \in Choices("tax_sweep", InputNames, defective)
          /\ cap_sweep_df \in Choices("cap_sweep", InputNames, defective)
          /\ hybrid_df \in Choices("hybrid", InputNames, defective)
          /\ svt_df \in Choices("svt", InputNames, defective)
          /\ topology_df \in Choices("topology", InputNames, defective)
          /\ nlm_comparison_df \in Choices("nlm_comparison", InputNames, defective)
          /\ consolidated_df \in Choices("consolidated", InputNames, defective)
          /\ pareto_dir \in Choices("pareto", InputNames, defective)
    /\ Start

SpecPair == InitPair /\ [][Next]_vars

(***************************************************************************)
(* Runs in which a single input exists, enumerated in full: the result     *)
(* directory holds one table (or only the pareto directory).               *)
(***************************************************************************)
OnlyInput(name) ==
    /\ name = "scalability" \/ scalability_df = Absent("scalability")
    /\ name = "tax_sweep" \/ tax_sweep_df = Absent("tax_sweep")
    /\ name = "cap_sweep" \/ cap_sweep_df = Absent("cap_sweep")
    /\ name = "hybrid" \/ hybrid_df = Absent("hybrid")
    /\ name = "svt" \/ svt_df = Absent("svt")
    /\ name = "topology" \/ topology_df = Absent("topology")
    /\ name = "nlm_comparison" \/ nlm_comparison_df = Absent("nlm_comparison")
    /\ name = "consolidated" \/ consolidated_df = Absent("consolidated")
    /\ name = "pareto" \/ pareto_dir = Absent("pareto")
    /\ Start

ScalIds == {bom_10, bom_50, control, xbom_7, Bom_3}

ScalRows ==
    {ScalRow(id, st, na) : id \in ScalIds, st \in Status,
                           na \in {{}, {"total_emissions"}, {"buffer_count"}}}

\* every scalability table of up to MaxRows rows
InitScal ==
    /\ scalability_df \in {Table(ScalCols, rows) : rows \in SeqsUpTo(ScalRows, MaxRows)}
    /\ OnlyInput("scalability")

SpecScal == InitScal /\ [][Next]_vars

CapRows ==
    {CapRow(id, st, cap, base) : id \in {inst_A, inst_B}, st \in Status,
                                 cap \in {1, 2}, base \in {1, 2}}

\* every cap sweep table of up to MaxGroupRows rows, with and without the columns
\* baseline_emissions and emission_reduction_pct
InitCap ==
    /\ cap_sweep_df \in
         {Table(CapCols \ drop, rows) :
            drop \in SUBSET {"baseline_emissions", "emission_reduction_pct"},
            rows \in SeqsUpTo(CapRows, MaxGroupRows)}
    /\ OnlyInput("cap_sweep")

SpecCap == InitCap /\ [][Next]_vars

ConsRows ==
    {ConsRow(strat, st, na) :
       strat \in {"EMISTAXE", "EMISCAP", "EMISHYBRID", "baseline"}, st \in Status,
       na \in {{}, {"total_cost_with_tax"}}}

\* every consolidated table of up to MaxGroupRows rows
InitCons ==
    /\ consolidated_df \in
         {Table(ConsCols, rows) : rows \in SeqsUpTo(ConsRows, MaxGroupRows)}
    /\ OnlyInput("consolidated")

SpecCons == InitCons /\ [][Next]_vars

TopoAlphabet == {"m", "l", "p", "a", "r", "M"}

\* every topology table of one OPTIMAL row whose identifier has up to MaxIdLen
\* characters, and every table of up to MaxRows rows of three sample identifiers
InitTopo ==
    /\ topology_df \in
         {Table(TopoCols, <<TopoRow(id, "OPTIMAL")>>) : id \in SeqsUpTo(TopoAlphabet, MaxIdLen)}
           \cup {Table(TopoCols, rows) :
                   rows \in SeqsUpTo({TopoRow(id, st) :
                                        id \in {<<"m", "l">>, <<"P", "A", "R">>, <<"a">>},
                                        st \in Status}, MaxRows)}
    /\ OnlyInput("topology")

SpecTopo == InitTopo /\ [][Next]_vars

\* the table of one kind with any of its columns but solver_status missing
ColumnSubsets(name) ==
    {[Good(name) EXCEPT !.cols = @ \ drop] :
        drop \in SUBSET (Good(name).cols \ {"solver_status"})}

\* a single table exists; it has OPTIMAL rows and lacks any set of columns
InitCols ==
    \E name \in InputNames \ {"pareto"} :
        /\ scalability_df \in
             IF name = "scalability" THEN ColumnSubsets(name) ELSE {NotLoaded}
        /\ tax_sweep_df \in IF name = "tax_sweep" THEN ColumnSubsets(name) ELSE {NotLoaded}
        /\ cap_sweep_df \in IF name = "cap_sweep" THEN ColumnSubsets(name) ELSE {NotLoaded}
        /\ hybrid_df \in IF name = "hybrid" THEN ColumnSubsets(name) ELSE {NotLoaded}
        /\ svt_df \in IF name = "svt" THEN ColumnSubsets(name) ELSE {NotLoaded}
        /\ topology_df \in IF name = "topology" THEN ColumnSubsets(name) ELSE {NotLoaded}
        /\ nlm_comparison_df \in
             IF name = "nlm_comparison" THEN ColumnSubsets(name) ELSE {NotLoaded}
        /\ consolidated_df \in
             IF name = "consolidated" THEN ColumnSubsets(name) ELSE {NotLoaded}
        /\ pareto_dir = Good("pareto")
        /\ Start

SpecCols == InitCols /\ [][Next]_vars

(***************************************************************************)
(* Properties.                                                             *)
(***************************************************************************)
TableBuilders == Range(Builders) \ {"plot_pareto_fronts"}

ScalabilityBuilders ==
    {"plot_scalability_runtime", "plot_scalability_emissions", "plot_scalability_buffers"}

\* the attribute that the call site of builder b tests and the builder copies
TableOf(b) ==
    CASE b \in ScalabilityBuilders -> scalability_df
      [] b = "plot_tax_sweep" -> tax_sweep_df
      [] b = "plot_cap_sweep" -> cap_sweep_df
      [] b = "plot_hybrid_strategy" -> hybrid_df
      [] b \in {"plot_cost_emissions_pareto", "plot_strategy_comparison",
                "plot_inventory_kpis"} -> consolidated_df
      [] b = "plot_service_time_sensitivity" -> svt_df
      [] b = "plot_topology_comparison" -> topology_df
      [] b = "plot_plm_nlm_comparison" -> nlm_comparison_df

\* the columns that builder b reads on some path
ReadCols(b) ==
    CASE b = "plot_scalability_runtime" -> {"instance_id", "runtime_sec"}
      [] b = "plot_scalability_emissions" -> {"instance_id", "total_emissions"}
      [] b = "plot_scalability_buffers" -> {"instance_id", "buffer_count"}
      [] b = "plot_tax_sweep" ->
           {"instance_id", "tax_rate", "total_emissions", "total_cost_with_tax"}
      [] b = "plot_cap_sweep" -> {"instance_id", "cap_value", "total_cost_without_tax"}
      [] b = "plot_hybrid_strategy" ->
           {"instance_id", "tax_rate", "total_emissions", "total_cost_with_tax"}
      [] b = "plot_cost_emissions_pareto" ->
           {"strategy", "total_emissions", "total_cost_without_tax"}
      [] b = "plot_strategy_comparison" ->
           {"strategy", "total_cost_with_tax", "total_emissions", "buffer_count"}
      [] b = "plot_inventory_kpis" -> {"strategy", "DIO"}
      [] b = "plot_service_time_sensitivity" ->
           {"service_time_promised", "buffer_count", "total_cost_without_tax"}
      [] b = "plot_topology_comparison" ->
           {"instance_id", "total_emissions", "buffer_count"}
      [] b = "plot_plm_nlm_comparison" ->
           {"model_type", "runtime_sec", "total_cost_without_tax"}

\* generate_all_figures has returned, or an exception has left it
Ended == pc = Returned \/ aborted

Position(b) == CHOOSE i \in 1..Len(Builders) : Builders[i] = b

Saved(owner) == FigName(owner) \in DOMAIN charts

\* the rows that the chart of owner draws, in any series
RowsDrawn(owner) ==
    LET chart == charts[FigName(owner)]
    IN UNION {{chart[k].pts[j].row : j \in 1..Len(chart[k].pts)} : k \in 1..Len(chart)}

\* C1: no chart of a table-based builder draws a row (as a point, a bar, a member of a
\* series, of a mean or of a box) whose solver_status is not OPTIMAL.
OnlyOptimalRowsDrawn ==
    \A b \in TableBuilders :
        Saved(b) => \A i \in RowsDrawn(b) : TableOf(b).rows[i].solver_status = "OPTIMAL"

\* a chart that draws rows was written from a table that also has a row that is not OPTIMAL
WitnessC1 ==
    \E b \in TableBuilders :
        /\ Saved(b)
        /\ RowsDrawn(b) # {}
        /\ \E i \in 1..Len(TableOf(b).rows) : TableOf(b).rows[i].solver_status # "OPTIMAL"

NoOptimalRow(t) == t.loaded /\ Optimal(t) = <<>>

\* C2: a builder whose table is loaded and has no OPTIMAL row writes no artifact, and
\* by the end of the run every later builder whose table is present has been invoked.
EmptyTableSkipsAndRunGoesOn ==
    \A b \in TableBuilders :
        NoOptimalRow(TableOf(b)) /\ outcome[b] # "not invoked" =>
            /\ outcome[b] = "skipped"
            /\ ~Saved(b)
            /\ Ended =>
                 \A b2 \in TableBuilders :
                     Position(b2) > Position(b) /\ TableOf(b2).loaded =>
                         outcome[b2] # "not invoked"

\* C3: a builder whose table is loaded, has an OPTIMAL row and lacks a column that the
\* builder reads produces no artifact and does not abort the run: it is skipped, and
\* by the end of the run all later builders have been invoked.
MissingColumnSkips ==
    \A b \in TableBuilders :
        /\ TableOf(b).loaded
        /\ Optimal(TableOf(b)) # <<>>
        /\ ~(ReadCols(b) \subseteq TableOf(b).cols)
        /\ outcome[b] # "not invoked"
        => /\ outcome[b] = "skipped"
           /\ ~aborted
           /\ ~Saved(b)

\* the points that a scalability chart has to draw: the rows of df that have a size (and
\* a value of col), at their sizes, in ascending order of size
IsSizedPlot(pts, t, col) ==
    /\ {pts[j].row : j \in 1..Len(pts)} =
         {i \in Range(Optimal(t)) : /\ ExtractBomSize(t.rows[i].instance_id) # NoValue
                                    /\ col \notin t.rows[i].na}
    /\ \A j \in 1..Len(pts) : pts[j].x = ExtractBomSize(t.rows[pts[j].row].instance_id)
    /\ \A j, k \in 1..Len(pts) : j < k => pts[j].x <= pts[k].x /\ pts[j].row # pts[k].row

ScalValueCol(b) ==
    CASE b = "plot_scalability_runtime" -> "runtime_sec"
      [] b = "plot_scalability_emissions" -> "total_emissions"
      [] b = "plot_scalability_buffers" -> "buffer_count"

\* C4: a scalability builder called on a table with OPTIMAL rows does not abort the run,
\* whatever identifiers the rows have, and the chart it writes draws exactly the rows
\* whose identifier contains bom_<digits>, at the extracted size, in ascending order.
UnmatchedRowsAreDropped ==
    \A b \in ScalabilityBuilders :
        Optimal(scalability_df) # <<>> /\ outcome[b] # "not invoked" =>
            /\ outcome[b] # "raised"
            /\ Saved(b) =>
                 \A k \in 1..Len(charts[FigName(b)]) :
                     IsSizedPlot(charts[FigName(b)][k].pts, scalability_df, ScalValueCol(b))

\* the builders in the fixed order, each if and only if its table is loaded
ExpectedInvocations ==
    SelectSeq(Builders, LAMBDA b : b = "plot_pareto_fronts" \/ TableOf(b).loaded)

IsPrefix(s, t) == Len(s) <= Len(t) /\ \A i \in 1..Len(s) : s[i] = t[i]

\* C5: the builders are invoked in the fixed order, one after the other, and by the end
\* of the run a builder has been invoked if and only if its table was loaded.
FixedOrderGatedOnTables ==
    /\ IsPrefix(invoked, ExpectedInvocations)
    /\ Ended => invoked = ExpectedInvocations

\* the row of rows that sort_values('cap_value', ascending=False) puts first
FirstByCapDesc(t, rows) ==
    CHOOSE i \in rows :
        \A j \in rows :
            \/ t.rows[i].cap_value > t.rows[j].cap_value
            \/ t.rows[i].cap_value = t.rows[j].cap_value /\ i <= j

\* the denominator D that the cap sweep chart has to use for the OPTIMAL rows of one
\* instance
ExpectedDenominator(t, rows) ==
    IF "baseline_emissions" \in t.cols
    THEN t.rows[FirstByCapDesc(t, rows)].baseline_emissions
    ELSE Max({t.rows[i].cap_value : i \in rows})

\* C6: the cap sweep chart draws every instance that has OPTIMAL rows, each row at
\* x = 100 * cap_value / D, with D the largest cap_value of the instance's OPTIMAL rows
\* if the table has no baseline_emissions column, else the baseline_emissions of the
\* instance's first row in descending cap_value order.
CapSweepPlotsEveryInstance ==
    LET t == cap_sweep_df
        rowsOf(inst) == {i \in Range(Optimal(t)) : t.rows[i].instance_id = inst}
        chart == charts[FigName("plot_cap_sweep")]
    IN outcome["plot_cap_sweep"] # "not invoked" /\ Optimal(t) # <<>> =>
          /\ Saved("plot_cap_sweep")
          /\ \A inst \in {t.rows[i].instance_id : i \in Range(Optimal(t))} :
                \E k \in 1..Len(chart) :
                    /\ chart[k].label = inst
                    /\ {chart[k].pts[j].row : j \in 1..Len(chart[k].pts)} = rowsOf(inst)
                    /\ \A j \in 1..Len(chart[k].pts) :
                          chart[k].pts[j].x.num * ExpectedDenominator(t, rowsOf(inst))
                              = 100 * t.rows[chart[k].pts[j].row].cap_value
                                    * chart[k].pts[j].x.den

\* the labels of the series of one panel of a chart, in order
PanelLabels(chart, panel) ==
    LET inPanel == SelectSeq(chart, LAMBDA sr : sr.panel = panel)
    IN [k \in 1..Len(inPanel) |-> inPanel[k].label]

NoDuplicates(s) == \A i, j \in 1..Len(s) : s[i] = s[j] => i = j

\* what C7 says of the two charts of the consolidated table t: the cost-emissions chart
\* (fig7) is written with one series per strategy of the OPTIMAL rows; the strategy
\* comparison (fig8) is not written if fewer than two of EMISTAXE, EMISCAP, EMISHYBRID
\* occur in the OPTIMAL rows, and otherwise it is written with exactly the labels that
\* occur, in the order EMISTAXE, EMISCAP, EMISHYBRID, in each of its panels
StrategyCharts(t) ==
    LET present == {t.rows[i].strategy : i \in Range(Optimal(t))}
        known == SelectSeq(<<"EMISTAXE", "EMISCAP", "EMISHYBRID">>, LAMBDA l : l \in present)
        fig7 == charts[FigName("plot_cost_emissions_pareto")]
        fig8 == charts[FigName("plot_strategy_comparison")]
    IN /\ outcome["plot_cost_emissions_pareto"] # "not invoked" =>
             /\ Saved("plot_cost_emissions_pareto")
             /\ Range(PanelLabels(fig7, 0)) = present
             /\ NoDuplicates(PanelLabels(fig7, 0))
       /\ outcome["plot_strategy_comparison"] # "not invoked" =>
             IF Len(known) < 2
             THEN ~Saved("plot_strategy_comparison")
             ELSE /\ Saved("plot_strategy_comparison")
                  /\ \A panel \in 0..2 : PanelLabels(fig8, panel) = known

HasMl(id) ==
    \E p \in 1..(Len(id) - 1) : LowerChar(id[p]) = "m" /\ LowerChar(id[p + 1]) = "l"

HasPar(id) ==
    \E p \in 1..(Len(id) - 2) :
        LowerChar(id[p]) = "p" /\ LowerChar(id[p + 1]) = "a" /\ LowerChar(id[p + 2]) = "r"

\* C8: in the topology chart a row is in the box 'Standard' if and only if its
\* identifier contains neither 'ml' nor 'par' in any case, in 'Multi-Level' if it
\* contains 'ml' (also when it contains 'par'), and in 'Parallel' if it contains 'par'
\* and not 'ml'.
TopologyClassification ==
    LET t == topology_df
        chart == charts[FigName("plot_topology_comparison")]
    IN Saved("plot_topology_comparison") =>
          /\ \A k \in 1..Len(chart) :
                \A j \in 1..Len(chart[k].pts) :
                    LET id == t.rows[chart[k].pts[j].row].instance_id
                    IN /\ chart[k].label = "Standard" <=> ~HasMl(id) /\ ~HasPar(id)
                       /\ HasMl(id) => chart[k].label = "Multi-Level"
                       /\ HasPar(id) /\ ~HasMl(id) => chart[k].label = "Parallel"
          /\ RowsDrawn("plot_topology_comparison") = Range(Optimal(t))

\* a row whose identifier contains both 'ml' and 'par' is drawn in the box 'Multi-Level'
WitnessC8 ==
    LET t == topology_df
        chart == charts[FigName("plot_topology_comparison")]
    IN /\ Saved("plot_topology_comparison")
       /\ \E k \in 1..Len(chart) :
             \E j \in 1..Len(chart[k].pts) :
                 /\ HasMl(t.rows[chart[k].pts[j].row].instance_id)
                 /\ HasPar(t.rows[chart[k].pts[j].row].instance_id)
                 /\ chart[k].label = "Multi-Level"

\* C9: a builder that has returned without an artifact has printed a message that
\* names its chart.
EverySkipIsReported ==
    \A b \in Range(Builders) :
        outcome[b] = "skipped" =>
            \E i \in 1..Len(console) : console[i].about = b /\ console[i].text # "Generated"

OtherExt(e) == IF e = "png" THEN "pdf" ELSE "png"

\* C10: the files written are pairs fig<N>_<slug>.png and fig<N>_<slug>.pdf; two files
\* have the same N if and only if they have the same slug, and a file written for a
\* chart has the N and the slug of that chart in the catalog, whatever else the run
\* produced or skipped.
ArtifactPairsWithCatalogNames ==
    /\ \A f \in figures_dir :
          /\ f.ext \in {"png", "pdf"}
          /\ [f EXCEPT !.ext = OtherExt(f.ext)] \in figures_dir
          /\ \E o \in Owners : f.n = FigIndex(o) /\ f.slug = FigSlug(o)
    /\ \A f, g \in figures_dir : f.n = g.n <=> f.slug = g.slug
    /\ \A o \in Owners : Saved(o) => Files({FigName(o)}) \subseteq figures_dir

\* the run has ended with the tax sweep chart written and the scalability charts not
WitnessC10 ==
    /\ pc = Returned
    /\ Files({FigName("plot_tax_sweep")}) \subseteq figures_dir
    /\ \A f \in figures_dir : f.n > 3
    /\ outcome["plot_scalability_buffers"] = "skipped"

(***************************************************************************)
(* Runs in which only the hybrid table exists, enumerated in full.         *)
(***************************************************************************)
inst_C == <<"C">>

HybridRows == {HybridRow(id, st) : id \in {inst_A, inst_B, inst_C}, st \in Status}

\* every hybrid table of up to MaxGroupRows rows
InitHybrid ==
    /\ hybrid_df \in {Table(HybridCols, rows) : rows \in SeqsUpTo(HybridRows, MaxGroupRows)}
    /\ OnlyInput("hybrid")

SpecHybrid == InitHybrid /\ [][Next]_vars

\* the first two distinct instance identifiers of the OPTIMAL rows of t
FirstTwoInstances(t) ==
    LET ids == Unique([k \in 1..Len(Optimal(t)) |-> t.rows[Optimal(t)[k]].instance_id])
    IN SubSeq(ids, 1, IF Len(ids) < 2 THEN Len(ids) ELSE 2)

\* C11: a builder called on a loaded table that has an OPTIMAL row and all the columns
\* the builder reads returns normally and writes exactly one artifact pair, its own;
\* the hybrid chart does so for one instance as for several, and each of its series is
\* one of the first two distinct instances, the i-th of them in panel i.
EveryBuilderWritesOnePair ==
    \A b \in TableBuilders :
        /\ TableOf(b).loaded
        /\ Optimal(TableOf(b)) # <<>>
        /\ ReadCols(b) \subseteq TableOf(b).cols
        /\ outcome[b] # "not invoked"
        => /\ outcome[b] = "saved"
           /\ Saved(b)
           /\ Files({FigName(b)}) \subseteq figures_dir
           /\ b = "plot_hybrid_strategy" =>
                LET chart == charts[FigName(b)]
                    two == FirstTwoInstances(TableOf(b))
                IN \A k \in 1..Len(chart) :
                      \E i \in 1..Len(two) :
                          chart[k].label = two[i] /\ chart[k].panel = i - 1

(***************************************************************************)
(* Runs in which only one of the two sweep tables exists, enumerated in    *)
(* full.                                                                   *)
(***************************************************************************)
TaxRows ==
    {TaxRow(id, st, rate) : id \in {inst_A, inst_B}, st \in Status, rate \in {1, 2}}

\* every tax sweep table of up to MaxGroupRows rows
InitTax ==
    /\ tax_sweep_df \in {Table(TaxCols, rows) : rows \in SeqsUpTo(TaxRows, MaxGroupRows)}
    /\ OnlyInput("tax_sweep")

InitSweep == InitTax \/ InitCap

SpecSweep == InitSweep /\ [][Next]_vars

\* the series of chart in panel whose label is inst
SeriesOf(chart, panel, inst) ==
    {k \in 1..Len(chart) : chart[k].panel = panel /\ chart[k].label = inst}

\* chart has, in panel, exactly one series for every instance of the OPTIMAL rows of t;
\* the series holds the OPTIMAL rows of the instance, and before(r1, r2) holds of every
\* row r1 and every later row r2 of the series
OneSeriesPerInstance(chart, panel, t, before(_, _)) ==
    \A inst \in {t.rows[i].instance_id : i \in Range(Optimal(t))} :
        /\ Cardinality(SeriesOf(chart, panel, inst)) = 1
        /\ \A k \in SeriesOf(chart, panel, inst) :
              LET pts == chart[k].pts IN
              /\ {pts[j].row : j \in 1..Len(pts)}
                   = {i \in Range(Optimal(t)) : t.rows[i].instance_id = inst}
              /\ \A j1, j2 \in 1..Len(pts) :
                    j1 < j2 => pts[j1].row # pts[j2].row
                               /\ before(t.rows[pts[j1].row], t.rows[pts[j2].row])

\* C12: the tax sweep chart has, in each of its two panels, one series for every
\* instance that has an OPTIMAL row, with the points in ascending tax_rate order; the
\* cap sweep chart has one series for every such instance, with the points in
\* descending cap_value order.
SweepsPlotEveryInstance ==
    /\ outcome["plot_tax_sweep"] # "not invoked" /\ Optimal(tax_sweep_df) # <<>> =>
          /\ Saved("plot_tax_sweep")
          /\ \A panel \in {0, 1} :
                OneSeriesPerInstance(charts[FigName("plot_tax_sweep")], panel, tax_sweep_df,
                                     LAMBDA r1, r2 : r1.tax_rate <= r2.tax_rate)
    /\ outcome["plot_cap_sweep"] # "not invoked" /\ Optimal(cap_sweep_df) # <<>> =>
          /\ Saved("plot_cap_sweep")
          /\ OneSeriesPerInstance(charts[FigName("plot_cap_sweep")], 0, cap_sweep_df,
                                  LAMBDA r1, r2 : r1.cap_value >= r2.cap_value)

(***************************************************************************)
(* Runs in which the pareto directory is enumerated in full, with and      *)
(* without a result table beside it.                                       *)
(***************************************************************************)
\* files of a pareto directory whose contents are enumerated
MaxFiles == 2

ParetoFiles ==
    {ParetoFile(inst, front, csv, cols) :
        inst \in {inst_A, inst_B}, front \in {"cost_emissions", "cost_dio", "cost_wip"},
        csv \in BOOLEAN, cols \in {{"Cost", "Emissions"}, {"Cost", "DIO"}, {"Cost"}}}

\* no pareto directory, or a directory of up to MaxFiles files; the scalability table
\* loaded or not, no other table
InitPareto ==
    /\ pareto_dir \in {Absent("pareto")}
         \cup {[exists |-> TRUE, files |-> fs] : fs \in SeqsUpTo(ParetoFiles, MaxFiles)}
    /\ scalability_df \in {Absent("scalability"), Good("scalability")}
    /\ tax_sweep_df = NotLoaded
    /\ cap_sweep_df = NotLoaded
    /\ hybrid_df = NotLoaded
    /\ svt_df = NotLoaded
    /\ topology_df = NotLoaded
    /\ nlm_comparison_df = NotLoaded
    /\ consolidated_df = NotLoaded
    /\ Start

SpecPareto == InitPareto /\ [][Next]_vars

\* the files of the directory whose name ends in _pareto.csv and contains front
Matching(front) ==
    {k \in 1..Len(pareto_dir.files) :
        pareto_dir.files[k].pareto_csv /\ pareto_dir.files[k].front = front}

\* the matching files that have the column Cost and the column ycol
Usable(front, ycol) ==
    {k \in Matching(front) : {"Cost", ycol} \subseteq pareto_dir.files[k].cols}

\* what C13 says of the chart of one front type
FrontChart(owner, front, ycol) ==
    /\ Saved(owner) => pareto_dir.exists /\ Matching(front) # {}
    /\ Saved(owner) =>
          /\ Len(charts[FigName(owner)]) = Cardinality(Usable(front, ycol))
          /\ \A k \in 1..Len(charts[FigName(owner)]) :
                \E f \in Usable(front, ycol) :
                    charts[FigName(owner)][k].label = pareto_dir.files[f].instance
    /\ Usable(front, ycol) = {} => ~Saved(owner)

\* C13: fig13 is written only if the pareto directory exists and holds a matching
\* cost_emissions file, fig14 only if it holds a matching cost_dio file, whatever tables
\* were loaded; a file without its columns (Cost and Emissions, Cost and DIO) gives no
\* series, and a front type none of whose files has its columns gets no artifact.
ParetoFrontsNeedUsableFiles ==
    /\ FrontChart("pareto_cost_emissions", "cost_emissions", "Emissions")
    /\ FrontChart("pareto_cost_dio", "cost_dio", "DIO")

\* the outcome of builder b called on table t
Built(b, t) ==
    CASE b = "plot_scalability_runtime" -> plot_scalability_runtime(t)
      [] b = "plot_scalability_emissions" -> plot_scalability_emissions(t)
      [] b = "plot_scalability_buffers" -> plot_scalability_buffers(t)
      [] b = "plot_tax_sweep" -> plot_tax_sweep(t)
      [] b = "plot_cap_sweep" -> plot_cap_sweep(t)
      [] b = "plot_hybrid_strategy" -> plot_hybrid_strategy(t)
      [] b = "plot_cost_emissions_pareto" -> plot_cost_emissions_pareto(t)
      [] b = "plot_strategy_comparison" -> plot_strategy_comparison(t)
      [] b = "plot_inventory_kpis" -> plot_inventory_kpis(t)
      [] b = "plot_service_time_sensitivity" -> plot_service_time_sensitivity(t)
      [] b = "plot_topology_comparison" -> plot_topology_comparison(t)
      [] b = "plot_plm_nlm_comparison" -> plot_plm_nlm_comparison(t)

\* every chart written is the chart that its builder draws from the table as it is now
ChartsAreOfTheTables ==
    \A b \in TableBuilders :
        Saved(b) =>
            /\ Built(b, TableOf(b)).files = {FigName(b)}
            /\ charts[FigName(b)] = Built(b, TableOf(b)).chart[FigName(b)]

EveryBuilderReleasesItsFigure == ~aborted => open_figs = 0
====
